---- MODULE Spec2Model ----
(***************************************************************************)
(* InstiFund: the day-stepped market replay (src/src/market/simulation.py), *)
(* the portfolio ledger (src/src/market/portfolio.py) and the backtesting   *)
(* orchestrator (src/src/backtest.py).                                      *)
(*                                                                          *)
(* Python floats are modelled as exact rationals <<n, d>> (d > 0, lowest    *)
(* terms), so equal amounts are equal values.  Dates are <<month, day>>.    *)
(***************************************************************************)
EXTENDS Integers, Sequences, FiniteSets, TLC

(***************************************************************************)
(* Exact rational arithmetic standing for float arithmetic.                 *)
(***************************************************************************)
Abs(x) == IF x < 0 THEN -x ELSE x

RECURSIVE GCD(_, _)
GCD(a, b) == IF b = 0 THEN a ELSE GCD(b, a % b)

LCM(a, b) == (a \div GCD(a, b)) * b

Rat(n, d) == LET g == GCD(Abs(n), d) IN <<n \div g, d \div g>>

FromInt(i) == <<i, 1>>

Zero == FromInt(0)

RAdd(a, b) == LET l == LCM(a[2], b[2])
              IN  Rat(a[1] * (l \div a[2]) + b[1] * (l \div b[2]), l)

RNeg(a) == <<-a[1], a[2]>>

RSub(a, b) == RAdd(a, RNeg(b))

RMul(a, b) == LET g1 == GCD(Abs(a[1]), b[2])
                  g2 == GCD(Abs(b[1]), a[2])
              IN  Rat((a[1] \div g1) * (b[1] \div g2), (a[2] \div g2) * (b[2] \div g1))

\* a / b for b # 0
RDiv(a, b) == IF b[1] > 0 THEN RMul(a, <<b[2], b[1]>>)
              ELSE RMul(a, <<-b[2], -b[1]>>)

RLe(a, b) == LET l == LCM(a[2], b[2])
             IN  a[1] * (l \div a[2]) <= b[1] * (l \div b[2])

RLt(a, b) == ~RLe(b, a)

RMax(a, b) == IF RLe(a, b) THEN b ELSE a

\* int(a // 1): floor of a rational
RFloor(a) == a[1] \div a[2]

(***************************************************************************)
(* Inputs and configuration.                                                *)
(***************************************************************************)
Symbols == {"AAA", "BBB"}

\* Run parameters (config["default_backtest_params"], optimizer trials):
\* params["initial_balance"], number_of_stocks and stock_weight_option.
InitialBalance == 20

ParamChoices ==
    {[number_of_stocks |-> 1, stock_weight_option |-> "equal"],
     [number_of_stocks |-> 2, stock_weight_option |-> "equal"],
     [number_of_stocks |-> 2, stock_weight_option |-> "linear"],
     [number_of_stocks |-> 2, stock_weight_option |-> "softmax"]}

\* backtest.py class constants and parameter defaults
RELEASE_DAY == 20
MAX_VOLUME == 20000
TRAILING_STOP_LOSS == <<7, 20>>
TAKE_PROFIT == <<1, 4>>
\* config["trading_fee"]
TRADING_FEE == <<1, 100>>

NoDate == <<0, 0>>

(***************************************************************************)
(* Portfolio (src/src/market/portfolio.py).  assets is the dict in          *)
(* insertion order: a sequence of [asset, quantity, average_price].         *)
(***************************************************************************)
EmptyDailyStatistics(d) ==
    [sum_of_winners |-> Zero, sum_of_losers |-> Zero,
     number_of_trades |-> 0, number_of_winners |-> 0, date |-> d]

NewPortfolio(initial_balance) ==
    [balance |-> initial_balance,
     initial_balance |-> initial_balance,
     realized_profit_loss |-> Zero,
     assets |-> <<>>,
     transactions |-> <<>>,
     daily_statistics |-> EmptyDailyStatistics(NoDate)]

\* the keys of the assets dict
Held(p) == {p.assets[i].asset : i \in 1..Len(p.assets)}

HeldKeys(p) == [i \in 1..Len(p.assets) |-> p.assets[i].asset]

AssetIndex(p, a) == CHOOSE i \in 1..Len(p.assets) : p.assets[i].asset = a

AssetData(p, a) == p.assets[AssetIndex(p, a)]

RemoveAt(s, i) == [j \in 1..(Len(s) - 1) |-> IF j < i THEN s[j] ELSE s[j + 1]]

\* mutant: the purchase is logged but the cash is not taken
add_asset_no_debit(p, asset_name, quantity, total_cost, price, transaction_date) ==
    [p EXCEPT
       !.assets = IF asset_name \notin Held(p)
                  THEN Append(@, [asset |-> asset_name, quantity |-> quantity,
                                  average_price |-> RDiv(total_cost, FromInt(quantity))])
                  ELSE @,
       !.transactions = Append(@, [action |-> "buy", asset |-> asset_name,
                                   quantity |-> quantity, price |-> price,
                                   total_cost |-> total_cost,
                                   datetime |-> transaction_date])]

\* mutant: the new average is the mean of the old average and the fill's unit cost
add_asset_mean_of_prices(p, asset_name, quantity, total_cost, price, transaction_date) ==
    LET unit_cost == RDiv(total_cost, FromInt(quantity))
        new_assets ==
          IF asset_name \notin Held(p)
          THEN Append(p.assets, [asset |-> asset_name, quantity |-> quantity,
                                 average_price |-> unit_cost])
          ELSE LET i == AssetIndex(p, asset_name)
               IN  [p.assets EXCEPT
                      ![i] = [asset |-> asset_name,
                              quantity |-> p.assets[i].quantity + quantity,
                              average_price |->
                                 RDiv(RAdd(p.assets[i].average_price, unit_cost),
                                      FromInt(2))]]
    IN  [p EXCEPT
           !.assets = new_assets,
           !.balance = RSub(@, total_cost),
           !.transactions = Append(@, [action |-> "buy", asset |-> asset_name,
                                       quantity |-> quantity, price |-> price,
                                       total_cost |-> total_cost,
                                       datetime |-> transaction_date])]

add_asset(p, asset_name, quantity, total_cost, price, transaction_date) ==
    LET new_assets ==
          IF asset_name \notin Held(p)
          THEN Append(p.assets,
                      [asset |-> asset_name, quantity |-> quantity,
                       average_price |-> RDiv(total_cost, FromInt(quantity))])
          ELSE LET i == AssetIndex(p, asset_name)
                   current_quantity == p.assets[i].quantity
                   current_avg_price == p.assets[i].average_price
                   new_quantity == current_quantity + quantity
                   new_avg_price ==
                     RDiv(RAdd(RMul(FromInt(current_quantity), current_avg_price),
                               total_cost),
                          FromInt(new_quantity))
               IN  [p.assets EXCEPT ![i] = [asset |-> asset_name,
                                            quantity |-> new_quantity,
                                            average_price |-> new_avg_price]]
    IN  [p EXCEPT
           !.assets = new_assets,
           !.balance = RSub(@, total_cost),
           !.transactions = Append(@, [action |-> "buy", asset |-> asset_name,
                                       quantity |-> quantity, price |-> price,
                                       total_cost |-> total_cost,
                                       datetime |-> transaction_date])]

\* mutant: the cached aggregates are returned whatever their date
get_daily_statistics_stale(p, date) == p.daily_statistics

get_daily_statistics(p, date) ==
    IF p.daily_statistics.date # date
    THEN EmptyDailyStatistics(date)
    ELSE p.daily_statistics

\* mutant: only a symbol that is not held is refused
remove_asset_raises_unheld(p, asset_name, quantity) ==
    asset_name \notin Held(p)

\* remove_asset raises ValueError (lines 78-80, 121-122)
remove_asset_raises(p, asset_name, quantity) ==
    \/ asset_name \notin Held(p)
    \/ quantity > AssetData(p, asset_name).quantity

\* mutant: the position is decremented but an emptied entry is kept
assets_keep_empty(assets, i, quantity) ==
    [assets EXCEPT ![i].quantity = @ - quantity]

\* remove_asset, lines 87-89: the quantity update and the removal of the entry
assets_after_remove(assets, i, quantity) ==
    IF assets[i].quantity - quantity <= 0
    THEN RemoveAt(assets, i)
    ELSE [assets EXCEPT ![i].quantity = @ - quantity]

\* mutant: the realized P&L is taken on the sale price, not on the average cost
remove_asset_pl_on_price(p, asset_name, quantity, total_revenue, price, transaction_date) ==
    LET i == AssetIndex(p, asset_name)
        realized_pl == RSub(total_revenue, RMul(FromInt(quantity), price))
    IN  [p EXCEPT
           !.realized_profit_loss = RAdd(@, realized_pl),
           !.assets = assets_after_remove(@, i, quantity),
           !.balance = RAdd(@, total_revenue),
           !.transactions = Append(@, [action |-> "sell", asset |-> asset_name,
                                       quantity |-> quantity, price |-> price,
                                       total_revenue |-> total_revenue,
                                       realized_pl |-> realized_pl,
                                       datetime |-> transaction_date])]

\* remove_asset when it does not raise (lines 82-120)
remove_asset(p, asset_name, quantity, total_revenue, price, transaction_date) ==
    LET i == AssetIndex(p, asset_name)
        average_price == p.assets[i].average_price
        realized_pl == RSub(total_revenue, RMul(FromInt(quantity), average_price))
        date_key == transaction_date
        ds == IF p.daily_statistics.date # date_key
              THEN EmptyDailyStatistics(date_key)
              ELSE p.daily_statistics
        winner == RLt(Zero, realized_pl)
    IN  [p EXCEPT
           !.realized_profit_loss = RAdd(@, realized_pl),
           !.assets = assets_after_remove(@, i, quantity),
           !.balance = RAdd(@, total_revenue),
           !.transactions = Append(@, [action |-> "sell", asset |-> asset_name,
                                       quantity |-> quantity, price |-> price,
                                       total_revenue |-> total_revenue,
                                       realized_pl |-> realized_pl,
                                       datetime |-> transaction_date]),
           !.daily_statistics =
               [ds EXCEPT
                  !.number_of_trades = @ + 1,
                  !.sum_of_winners = IF winner THEN RAdd(@, realized_pl) ELSE @,
                  !.number_of_winners = IF winner THEN @ + 1 ELSE @,
                  !.sum_of_losers = IF winner THEN @ ELSE RAdd(@, <<Abs(realized_pl[1]), realized_pl[2]>>)]]

\* paid_value raises ValueError when the asset is not held (line 149)
paid_value_raises(p, asset_name) == asset_name \notin Held(p)

paid_value(p, asset_name, quantity) ==
    RMul(FromInt(quantity), AssetData(p, asset_name).average_price)

(***************************************************************************)
(* Market data (simulation.py lines 27-30).  MARKET_DATA holds the rows     *)
(* dated up to the cursor, one entry per trading day in ascending order:    *)
(* [datetime, rows], rows mapping each symbol quoted that day to its price. *)
(* No operation reads a row dated after the cursor, so the rows of a day    *)
(* are drawn when the cursor reaches it.                                    *)
(***************************************************************************)
Calendar == << <<1, 18>>, <<1, 19>>, <<1, 20>>, <<1, 21>>,
               <<2, 20>>, <<2, 21>>, <<2, 22>> >>

MaxDays == 6

\* the rows a trading day can hold: BBB quoted at 4, AAA at 3, 4 or 5 or not
\* quoted (a rise from 3 meets the take profit, a fall from 5 to 3 the
\* trailing stop, the other moves meet neither)
QuoteChoices ==
    {[s \in {"BBB"} |-> FromInt(4)]} \cup
    {[s \in Symbols |-> IF s = "AAA" THEN p ELSE FromInt(4)]
       : p \in {FromInt(3), FromInt(4), FromInt(5)}}

\* the rows of the start day
StartRows ==
    {[s \in {"BBB"} |-> FromInt(4)], [s \in Symbols |-> FromInt(4)]}

DateLe(a, b) == a[1] < b[1] \/ (a[1] = b[1] /\ a[2] <= b[2])

\* _get_trading_days: the dates of the data within [start_date, end_date],
\* sorted and deduplicated, not empty
TradingDayLists ==
    {SubSeq(Calendar, i, j) : i, j \in 1..Len(Calendar)} \
    {d \in {SubSeq(Calendar, i, j) : i, j \in 1..Len(Calendar)} :
        Len(d) = 0 \/ Len(d) > MaxDays}

MARKET_DATA_BY_DATE(md, date) ==
    LET I == {i \in 1..Len(md) : md[i].datetime = date}
    IN  md[CHOOSE i \in I : TRUE].rows

(***************************************************************************)
(* MarketSimulation (src/src/market/simulation.py).                         *)
(***************************************************************************)
NewSimulation(trading_days, md) ==
    [trading_days |-> trading_days,
     latest_price_cache |-> <<>>,
     current_trading_day_index |-> 0,
     current_date |-> trading_days[1],
     current_data |-> MARKET_DATA_BY_DATE(md, trading_days[1])]

\* step() returns True
step_advances(sim) == sim.current_trading_day_index + 1 < Len(sim.trading_days)

\* mutant: the cache is replaced by the day's quotes
CacheReplace(cache, rows) == rows

\* dict.update(zip(tickers, prices))
CacheUpdate(cache, rows) ==
    [s \in (DOMAIN cache) \cup (DOMAIN rows) |->
        IF s \in DOMAIN rows THEN rows[s] ELSE cache[s]]

\* mutant: the cursor moves on but the date read is the one it was on
step_repeats_day(sim, md) ==
    LET idx == sim.current_trading_day_index + 1
        date == sim.trading_days[idx]
        new_data == MARKET_DATA_BY_DATE(md, date)
    IN  [sim EXCEPT
           !.current_trading_day_index = idx,
           !.current_date = date,
           !.current_data = new_data,
           !.latest_price_cache = CacheUpdate(@, new_data)]

\* mutant: the new day is loaded but the price cache is left as it was
step_stale(sim, md) ==
    LET idx == sim.current_trading_day_index + 1
        date == sim.trading_days[idx + 1]
    IN  [sim EXCEPT
           !.current_trading_day_index = idx,
           !.current_date = date,
           !.current_data = MARKET_DATA_BY_DATE(md, date)]

\* step() when it advances; md holds the new day's rows
step(sim, md) ==
    LET idx == sim.current_trading_day_index + 1
        date == sim.trading_days[idx + 1]
        new_data == MARKET_DATA_BY_DATE(md, date)
    IN  [sim EXCEPT
           !.current_trading_day_index = idx,
           !.current_date = date,
           !.current_data = new_data,
           !.latest_price_cache = CacheUpdate(@, new_data)]

CachedPrice(sim, symbol) ==
    IF symbol \in DOMAIN sim.latest_price_cache
    THEN sim.latest_price_cache[symbol] ELSE Zero

\* the quote is {} (the empty function) when the symbol is not in current_data
buy_stock(sim, symbol, quantity) ==
    IF DOMAIN sim.current_data = {} THEN <<>>
    ELSE IF symbol \notin DOMAIN sim.current_data THEN <<>>
    ELSE LET price == CachedPrice(sim, symbol)
         IN  [symbol |-> symbol, quantity |-> quantity,
              total_cost |-> RMul(RMul(price, FromInt(quantity)),
                                  RAdd(FromInt(1), TRADING_FEE)),
              price |-> price, date |-> sim.current_date]

\* mutant: the revenue is quoted without the fee
sell_stock_no_fee(sim, symbol, quantity) ==
    IF symbol \notin DOMAIN sim.current_data THEN <<>>
    ELSE LET price == CachedPrice(sim, symbol)
         IN  [symbol |-> symbol, quantity |-> quantity,
              total_revenue |-> RMul(price, FromInt(quantity)),
              price |-> price, date |-> sim.current_date]

sell_stock(sim, symbol, quantity) ==
    IF DOMAIN sim.current_data = {} THEN <<>>
    ELSE IF symbol \notin DOMAIN sim.current_data THEN <<>>
    ELSE LET price == CachedPrice(sim, symbol)
         IN  [symbol |-> symbol, quantity |-> quantity,
              total_revenue |-> RMul(RMul(price, FromInt(quantity)),
                                     RSub(FromInt(1), TRADING_FEE)),
              price |-> price, date |-> sim.current_date]

\* mutant: the scan is not limited to the dates up to the current one
last_available_price_any_date(sim, md, asset) ==
    IF asset \in DOMAIN sim.latest_price_cache
    THEN sim.latest_price_cache[asset]
    ELSE LET I == {i \in 1..Len(md) : asset \in DOMAIN md[i].rows}
         IN  IF I = {} THEN Zero
             ELSE md[CHOOSE i \in I : \A j \in I : j <= i].rows[asset]

\* get_last_available_price: the value returned
last_available_price(sim, md, asset) ==
    IF asset \in DOMAIN sim.latest_price_cache
    THEN sim.latest_price_cache[asset]
    ELSE LET I == {i \in 1..Len(md) : /\ asset \in DOMAIN md[i].rows
                                      /\ DateLe(md[i].datetime, sim.current_date)}
         IN  IF I = {} THEN Zero
             ELSE md[CHOOSE i \in I : \A j \in I : j <= i].rows[asset]

\* get_last_available_price: the simulation afterwards (the result is cached)
cache_last_available_price(sim, md, asset) ==
    IF asset \in DOMAIN sim.latest_price_cache THEN sim
    ELSE [sim EXCEPT !.latest_price_cache =
             CacheUpdate(@, [s \in {asset} |-> last_available_price(sim, md, asset)])]

RECURSIVE SumPositions(_, _, _)
\* sum over the held positions of f(price, entry), prices from the cache
SumPositions(sim, assets, unrealized) ==
    IF assets = <<>> THEN Zero
    ELSE LET e == Head(assets)
             current_price == sim.latest_price_cache[e.asset]
             term == IF unrealized
                     THEN RMul(RSub(RMul(current_price, RSub(FromInt(1), TRADING_FEE)),
                                    e.average_price),
                               FromInt(e.quantity))
                     ELSE RMul(current_price, FromInt(e.quantity))
         IN  RAdd(term, SumPositions(sim, Tail(assets), unrealized))

\* get_portfolio_statistics raises ValueError (lines 174-175)
portfolio_statistics_raises(sim, p) ==
    \E a \in Held(p) : a \notin DOMAIN sim.latest_price_cache

get_portfolio_statistics(sim, p) ==
    [total_value |-> RAdd(p.balance, SumPositions(sim, p.assets, FALSE)),
     unrealized_profit_loss |-> SumPositions(sim, p.assets, TRUE),
     realized_profit_loss |-> p.realized_profit_loss]

is_last_trading_day(sim) ==
    sim.current_trading_day_index = Len(sim.trading_days) - 1

(***************************************************************************)
(* Ranking collaborator (src/src/recommendation/scoring.py, get_ranking):   *)
(* at most number_of_stocks distinct symbols with scores >= 0, best first.  *)
(***************************************************************************)
Min(a, b) == IF a <= b THEN a ELSE b

\* the rankings a month can have, (symbol, score) best first
RankedLists ==
    {<<[symbol |-> "AAA", score |-> Zero]>>,
     <<[symbol |-> "AAA", score |-> FromInt(1)], [symbol |-> "BBB", score |-> FromInt(1)]>>,
     <<[symbol |-> "BBB", score |-> FromInt(1)], [symbol |-> "AAA", score |-> Zero]>>}

\* get_ranking: df.nlargest(number_of_stocks, "score")
Rankings(n) == {SubSeq(r, 1, Min(n, Len(r))) : r \in RankedLists}

(***************************************************************************)
(* Backtesting (src/src/backtest.py).                                       *)
(***************************************************************************)
\* mutant: a sale whose quote is empty is still booked, at no revenue
sell_books_failed(sim, p, asset, quantity) ==
    LET sell_info == sell_stock(sim, asset, quantity)
    IN  IF "total_revenue" \notin DOMAIN sell_info \/ sell_info.total_revenue = Zero
        THEN [ok |-> FALSE, raised |-> FALSE,
              portfolio |-> IF remove_asset_raises(p, asset, quantity) THEN p
                            ELSE remove_asset(p, asset, quantity, Zero, Zero,
                                              sim.current_date)]
        ELSE [ok |-> TRUE, raised |-> FALSE,
              portfolio |-> remove_asset(p, asset, quantity, sell_info.total_revenue,
                                         sell_info.price, sell_info.date)]

\* Backtesting.sell: what it returns, whether it raised, the ledger afterwards
sell(sim, p, asset, quantity) ==
    LET sell_info == sell_stock(sim, asset, quantity)
    IN  IF "total_revenue" \notin DOMAIN sell_info \/ sell_info.total_revenue = Zero
        THEN [ok |-> FALSE, raised |-> FALSE, portfolio |-> p]
        ELSE IF paid_value_raises(p, asset) \/ remove_asset_raises(p, asset, quantity)
        THEN [ok |-> FALSE, raised |-> TRUE, portfolio |-> p]
        ELSE [ok |-> TRUE, raised |-> FALSE,
              portfolio |-> remove_asset(p, asset, quantity, sell_info.total_revenue,
                                         sell_info.price, sell_info.date)]

\* Backtesting.buy
buy(sim, p, symbol, quantity) ==
    LET buy_info == buy_stock(sim, symbol, quantity)
    IN  IF "total_cost" \notin DOMAIN buy_info \/ buy_info.total_cost = Zero
        THEN [ok |-> FALSE, raised |-> FALSE, portfolio |-> p]
        ELSE [ok |-> TRUE, raised |-> FALSE,
              portfolio |-> add_asset(p, symbol, quantity, buy_info.total_cost,
                                      buy_info.price, buy_info.date)]

RECURSIVE SeqSum(_)
SeqSum(s) == IF s = <<>> THEN Zero ELSE RAdd(Head(s), SeqSum(Tail(s)))

\* np.exp on the scores 0 and 1 (e taken as 19/7)
Exp(x) == IF x = Zero THEN FromInt(1) ELSE <<19, 7>>

\* float nan (0/0)
NaN == <<0, 0>>

\* get_weights: symbol -> weight over the first number_of_stocks ranked stocks
get_weights(ranked_stocks, number_of_stocks, option) ==
    LET n == Min(number_of_stocks, Len(ranked_stocks))
        scores == [i \in 1..n |-> ranked_stocks[i].score]
        exp_scores == [i \in 1..n |-> Exp(scores[i])]
        weights ==
          CASE option = "softmax" ->
                 [i \in 1..n |-> RDiv(exp_scores[i], SeqSum(exp_scores))]
            [] option = "equal" ->
                 [i \in 1..n |-> RDiv(FromInt(1), FromInt(n))]
            [] option = "linear" ->
                 [i \in 1..n |-> IF SeqSum(scores) = Zero THEN NaN
                                 ELSE RDiv(scores[i], SeqSum(scores))]
    IN  [s \in {ranked_stocks[i].symbol : i \in 1..n} |->
            weights[CHOOSE i \in 1..n : ranked_stocks[i].symbol = s]]

RECURSIVE FetchPrices(_, _, _)
\* the simulation after get_last_available_price for each symbol of a list
FetchPrices(sim, md, symbols) ==
    IF symbols = <<>> THEN sim
    ELSE FetchPrices(cache_last_available_price(sim, md, Head(symbols)), md, Tail(symbols))

\* mutant: every symbol is sized on the whole available balance
desired_quantity_unweighted(available_balance, weight, stock_price) ==
    Min(RFloor(RDiv(available_balance, stock_price)), MAX_VOLUME)

\* mutant: the quantity is not capped
desired_quantity_uncapped(available_balance, weight, stock_price) ==
    RFloor(RDiv(RMul(available_balance, weight), stock_price))

\* min(int(allocated_funds // stock_price), MAX_VOLUME), lines 226-228
desired_quantity(available_balance, weight, stock_price) ==
    Min(RFloor(RDiv(RMul(available_balance, weight), stock_price)), MAX_VOLUME)

\* mutant: the peak follows the current price down
new_peak_last(peaks, asset, current_price) == current_price

\* line 260: max(peak_prices.get(asset, current_price), current_price)
new_peak(peaks, asset, current_price) ==
    RMax(IF asset \in DOMAIN peaks THEN peaks[asset] ELSE current_price, current_price)

\* check_sell_conditions: the peak prices afterwards
peaks_after_check(p, peaks, asset, current_price) ==
    IF asset \notin Held(p) THEN peaks
    ELSE [s \in (DOMAIN peaks) \cup {asset} |->
             IF s = asset THEN new_peak(peaks, asset, current_price) ELSE peaks[s]]

take_profit_triggered(p, asset, current_price) ==
    LET purchase_price == AssetData(p, asset).average_price
    IN  RLe(TAKE_PROFIT, RDiv(RSub(current_price, purchase_price), purchase_price))

trailing_stop_triggered(peak_price, current_price) ==
    RLe(RDiv(RSub(current_price, peak_price), peak_price), RNeg(TRAILING_STOP_LOSS))

\* mutant: a symbol that is no longer held is reported for sale
check_sell_conditions_unguarded(p, peaks, asset, current_price) ==
    IF asset \notin Held(p) THEN TRUE
    ELSE \/ take_profit_triggered(p, asset, current_price)
         \/ trailing_stop_triggered(peaks_after_check(p, peaks, asset, current_price)[asset],
                                    current_price)

\* check_sell_conditions: the value returned
check_sell_conditions(p, peaks, asset, current_price) ==
    IF asset \notin Held(p) THEN FALSE
    ELSE \/ take_profit_triggered(p, asset, current_price)
         \/ trailing_stop_triggered(peaks_after_check(p, peaks, asset, current_price)[asset],
                                    current_price)

\* mutant: every day asks for a new rebalance
month_rollover_daily(need, month, previous_month) == "sell"

\* run, lines 292-294: need_rebalance after the month comparison
month_rollover(need, month, previous_month) ==
    IF month # previous_month THEN "sell" ELSE need

\* mutant: rebalancing happens on the release day only
rebalance_due_on_release_day(is_last, day, need) ==
    ~is_last /\ day = RELEASE_DAY /\ need # "no"

\* mutant: the release day is not waited for
rebalance_due_any_day(is_last, day, need) ==
    ~is_last /\ need # "no"

\* run, lines 305-307: rebalance_portfolio is called
rebalance_due(is_last, day, need) ==
    ~is_last /\ day >= RELEASE_DAY /\ need # "no"

(***************************************************************************)
(* State.  pc is the position of Backtesting.run; todo the rest of the list *)
(* a for-loop is walking; buy_locals the locals of the BUY phase;           *)
(* rebalance_log the "Rebalancing: selling/buying" log lines; last_call the *)
(* latest ledger or trade call with its outcome; runs the backtests that     *)
(* work side by side on the dataset, each with its own MarketSimulation and *)
(* Portfolio (empty where a single backtest is modelled).                   *)
(***************************************************************************)
VARIABLES MARKET_DATA, simulation, portfolio, params, need_rebalance, top_stocks,
          peak_prices, portfolio_statistics, rebalance_log, last_month, items,
          last_day, todo, buy_locals, pc, error, last_call, runs

vars == <<MARKET_DATA, simulation, portfolio, params, need_rebalance, top_stocks,
          peak_prices, portfolio_statistics, rebalance_log, last_month, items,
          last_day, todo, buy_locals, pc, error, last_call, runs>>

NoCall == [op |-> "none", asset |-> "", quantity |-> 0, ok |-> TRUE, seq |-> 0]

NoLocals == [available_balance |-> Zero, weights |-> <<>>, latest_price_cache |-> <<>>]

\* Backtesting.__init__ (lines 33-50)
Init ==
    \E trading_days \in TradingDayLists, rows \in StartRows, prm \in ParamChoices :
       /\ MARKET_DATA = <<[datetime |-> trading_days[1], rows |-> rows]>>
       /\ simulation = NewSimulation(trading_days, MARKET_DATA)
       /\ portfolio = NewPortfolio(FromInt(InitialBalance))
       /\ params = prm
       /\ need_rebalance = "no"
       /\ top_stocks = <<>>
       /\ peak_prices = <<>>
       /\ portfolio_statistics = <<>>
       /\ rebalance_log = <<>>
       /\ last_month = 0
       /\ items = <<>>
       /\ last_day = FALSE
       /\ todo = <<>>
       /\ buy_locals = NoLocals
       /\ pc = "init"
       /\ error = "none"
       /\ last_call = NoCall
       /\ runs = <<>>

\* run, lines 287-288
RunStart ==
    /\ pc = "init"
    /\ last_month' = simulation.current_date[1]
    /\ need_rebalance' = "buy"
    /\ pc' = "loop"
    /\ UNCHANGED <<runs, MARKET_DATA, simulation, portfolio, params, top_stocks, peak_prices,
                   portfolio_statistics, rebalance_log, items, last_day, todo,
                   buy_locals, error, last_call>>

\* run, lines 290-309: step() advances, month rollover, the items snapshot and
\* the decision to call rebalance_portfolio (whose SELL phase starts here)
StepOver(day_rows) ==
    /\ pc = "loop"
    /\ step_advances(simulation)
    /\ \E rows \in day_rows :
         LET date == simulation.trading_days[simulation.current_trading_day_index + 2]
             md == Append(MARKET_DATA, [datetime |-> date, rows |-> rows])
             sim == step(simulation, md)
             need == month_rollover(need_rebalance, date[1], last_month)
             last == is_last_trading_day(sim)
             calls == rebalance_due(last, date[2], need)
         IN  /\ MARKET_DATA' = md
             /\ simulation' = sim
             /\ last_month' = date[1]
             /\ need_rebalance' = need
             /\ items' = HeldKeys(portfolio)
             /\ last_day' = last
             /\ IF calls /\ need = "sell"
                THEN /\ pc' = "sell_phase"
                     /\ todo' = HeldKeys(portfolio)
                     /\ rebalance_log' = Append(rebalance_log,
                                                [phase |-> "sell", date |-> date])
                ELSE IF calls /\ need = "buy"
                THEN /\ pc' = "buy_begin"
                     /\ todo' = <<>>
                     /\ UNCHANGED rebalance_log
                ELSE /\ pc' = "exits"
                     /\ todo' = HeldKeys(portfolio)
                     /\ UNCHANGED rebalance_log
    /\ UNCHANGED <<runs, portfolio, params, top_stocks, peak_prices, portfolio_statistics,
                   buy_locals, error, last_call>>

\* the step over a price feed with positive prices
Step == StepOver(QuoteChoices)

\* run, line 290: step() returns False before the first iteration
Finish ==
    /\ pc = "loop"
    /\ ~step_advances(simulation)
    /\ pc' = "done"
    /\ UNCHANGED <<runs, MARKET_DATA, simulation, portfolio, params, need_rebalance,
                   top_stocks, peak_prices, portfolio_statistics, rebalance_log,
                   last_month, items, last_day, todo, buy_locals, error, last_call>>

\* rebalance_portfolio, lines 191-194: one iteration of the SELL loop, or its end
RebalanceSell ==
    /\ pc = "sell_phase"
    /\ IF todo # <<>>
       THEN LET asset == Head(todo)
                quantity == AssetData(portfolio, asset).quantity
                r == sell(simulation, portfolio, asset, quantity)
            IN  /\ portfolio' = r.portfolio
                /\ last_call' = [op |-> "sell", asset |-> asset, quantity |-> quantity,
                                 ok |-> r.ok, seq |-> last_call.seq + 1]
                /\ IF r.raised
                   THEN pc' = "crashed" /\ error' = "ValueError" /\ todo' = todo
                   ELSE pc' = pc /\ error' = error /\ todo' = Tail(todo)
                /\ UNCHANGED need_rebalance
       ELSE /\ need_rebalance' = "buy"
            /\ pc' = "exits"
            /\ todo' = items
            /\ UNCHANGED <<portfolio, last_call, error>>
    /\ UNCHANGED <<runs, MARKET_DATA, simulation, params, top_stocks, peak_prices,
                   portfolio_statistics, rebalance_log, last_month, items, last_day,
                   buy_locals>>

\* rebalance_portfolio, lines 198-216: ranking, weights and the price lookups
RebalanceBuyBegin ==
    /\ pc = "buy_begin"
    /\ \E ranked_stocks \in Rankings(params.number_of_stocks) :
         LET n == Min(params.number_of_stocks, Len(ranked_stocks))
             tops == [i \in 1..n |-> ranked_stocks[i].symbol]
         IN  /\ top_stocks' = tops
             /\ simulation' = FetchPrices(simulation, MARKET_DATA, tops)
             /\ buy_locals' =
                  [available_balance |-> RMul(portfolio.balance, <<9, 10>>),
                   weights |-> get_weights(ranked_stocks, params.number_of_stocks,
                                           params.stock_weight_option),
                   latest_price_cache |->
                       [s \in {tops[i] : i \in 1..n} |->
                           RMul(last_available_price(simulation, MARKET_DATA, s),
                                <<101, 100>>)]]
             /\ todo' = tops
    /\ rebalance_log' = Append(rebalance_log,
                               [phase |-> "buy", date |-> simulation.current_date])
    /\ pc' = "buy_phase"
    /\ UNCHANGED <<runs, MARKET_DATA, portfolio, params, need_rebalance, peak_prices,
                   portfolio_statistics, last_month, items, last_day, error, last_call>>

\* rebalance_portfolio, lines 219-233: one iteration of the BUY loop, or its end
RebalanceBuy ==
    /\ pc = "buy_phase"
    /\ IF todo # <<>>
       THEN /\ UNCHANGED need_rebalance
            /\ LET symbol == Head(todo)
                   stock_price == buy_locals.latest_price_cache[symbol]
                   weight == buy_locals.weights[symbol]
                   quantity == desired_quantity(buy_locals.available_balance, weight,
                                                stock_price)
                   r == buy(simulation, portfolio, symbol, quantity)
               IN  IF ~RLt(Zero, stock_price)
                   THEN /\ todo' = Tail(todo)
                        /\ UNCHANGED <<portfolio, last_call, pc, error>>
                   ELSE IF weight = NaN
                   THEN /\ pc' = "crashed"
                        /\ error' = "ValueError"
                        /\ UNCHANGED <<portfolio, last_call, todo>>
                   ELSE IF quantity > 0
                   THEN /\ portfolio' = r.portfolio
                        /\ last_call' = [op |-> "buy", asset |-> symbol,
                                         quantity |-> quantity, ok |-> r.ok,
                                         seq |-> last_call.seq + 1]
                        /\ todo' = Tail(todo)
                        /\ UNCHANGED <<pc, error>>
                   ELSE /\ todo' = Tail(todo)
                        /\ UNCHANGED <<portfolio, last_call, pc, error>>
       ELSE /\ need_rebalance' = "None"
            /\ pc' = "exits"
            /\ todo' = items
            /\ UNCHANGED <<portfolio, last_call, error>>
    /\ UNCHANGED <<runs, MARKET_DATA, simulation, params, top_stocks, peak_prices,
                   portfolio_statistics, rebalance_log, last_month, items, last_day,
                   buy_locals>>

\* asset_data['quantity'] of an item: the dict of the position, which a same-day
\* full sell has left at 0 when it removed the entry
ItemQuantity(p, asset) ==
    IF asset \in Held(p) THEN AssetData(p, asset).quantity ELSE 0

\* run, lines 312-317: one iteration of the risk-exit loop
RiskExit ==
    /\ pc = "exits"
    /\ todo # <<>>
    /\ LET asset == Head(todo)
           current_price == last_available_price(simulation, MARKET_DATA, asset)
           sim == cache_last_available_price(simulation, MARKET_DATA, asset)
           checked == ~last_day /\ RLt(Zero, current_price)
           sells == \/ last_day
                    \/ checked /\ check_sell_conditions(portfolio, peak_prices, asset,
                                                        current_price)
           quantity == ItemQuantity(portfolio, asset)
           r == sell(sim, portfolio, asset, quantity)
       IN  /\ simulation' = sim
           /\ peak_prices' = IF checked
                             THEN peaks_after_check(portfolio, peak_prices, asset,
                                                    current_price)
                             ELSE peak_prices
           /\ IF sells
              THEN /\ portfolio' = r.portfolio
                   /\ last_call' = [op |-> "sell", asset |-> asset,
                                    quantity |-> quantity, ok |-> r.ok,
                                    seq |-> last_call.seq + 1]
                   /\ IF r.raised
                      THEN pc' = "crashed" /\ error' = "ValueError" /\ todo' = todo
                      ELSE pc' = pc /\ error' = error /\ todo' = Tail(todo)
              ELSE /\ todo' = Tail(todo)
                   /\ UNCHANGED <<portfolio, last_call, pc, error>>
    /\ UNCHANGED <<runs, MARKET_DATA, params, need_rebalance, top_stocks,
                   portfolio_statistics, rebalance_log, last_month, items, last_day,
                   buy_locals>>

\* run, lines 320-334: the day's statistics snapshot; after the last day the
\* loop condition of line 290 is false and run returns
Record ==
    /\ pc = "exits"
    /\ todo = <<>>
    /\ IF portfolio_statistics_raises(simulation, portfolio)
       THEN /\ pc' = "crashed"
            /\ error' = "ValueError"
            /\ UNCHANGED portfolio_statistics
       ELSE LET daily_stats == get_daily_statistics(portfolio, simulation.current_date)
                portfolio_stats == get_portfolio_statistics(simulation, portfolio)
            IN  /\ portfolio_statistics' =
                     Append(portfolio_statistics,
                            [datetime |-> simulation.current_date,
                             total_assets |-> portfolio_stats.total_value,
                             cash |-> portfolio.balance,
                             number_of_trades |-> daily_stats.number_of_trades,
                             number_of_winners |-> daily_stats.number_of_winners,
                             sum_of_winners |-> daily_stats.sum_of_winners,
                             sum_of_losers |-> daily_stats.sum_of_losers])
                /\ pc' = IF step_advances(simulation) THEN "loop" ELSE "done"
                /\ UNCHANGED error
    /\ UNCHANGED <<runs, MARKET_DATA, simulation, portfolio, params, need_rebalance,
                   top_stocks, peak_prices, rebalance_log, last_month, items,
                   last_day, todo, buy_locals, last_call>>

Next ==
    \/ RunStart
    \/ Step
    \/ Finish
    \/ RebalanceSell
    \/ RebalanceBuyBegin
    \/ RebalanceBuy
    \/ RiskExit
    \/ Record

\* one backtest: Backtesting(start, end, params).run()
Spec == Init /\ [][Next]_vars

(***************************************************************************)
(* A backtest with a large initial_balance, so that the MAX_VOLUME cap of    *)
(* the BUY phase is met, over date ranges that start in the first month and  *)
(* end in the second.                                                        *)
(***************************************************************************)
LargeBalance == 70000

\* the date ranges: one trading day, or the day before the release day of
\* the first month, the release day, and three days of the second month
VolumeDayLists ==
    {<<Calendar[1]>>,
     <<Calendar[2], Calendar[3], Calendar[5], Calendar[6], Calendar[7]>>}

\* Backtesting.__init__ with params["initial_balance"] = LargeBalance
VolumeInit ==
    \E trading_days \in VolumeDayLists, rows \in StartRows, prm \in ParamChoices :
       /\ MARKET_DATA = <<[datetime |-> trading_days[1], rows |-> rows]>>
       /\ simulation = NewSimulation(trading_days, MARKET_DATA)
       /\ portfolio = NewPortfolio(FromInt(LargeBalance))
       /\ params = prm
       /\ need_rebalance = "no"
       /\ top_stocks = <<>>
       /\ peak_prices = <<>>
       /\ portfolio_statistics = <<>>
       /\ rebalance_log = <<>>
       /\ last_month = 0
       /\ items = <<>>
       /\ last_day = FALSE
       /\ todo = <<>>
       /\ buy_locals = NoLocals
       /\ pc = "init"
       /\ error = "none"
       /\ last_call = NoCall
       /\ runs = <<>>

SpecVolume == VolumeInit /\ [][Next]_vars

(***************************************************************************)
(* A backtest that goes on after the second month's BUY phase, so that a    *)
(* position bought again after a sale meets the risk-exit loop on a day     *)
(* that is not the last one.                                                *)
(***************************************************************************)
\* the date ranges: one trading day, or (1,19) to (2,23)
LongDayLists ==
    {<<Calendar[1]>>,
     <<Calendar[2], Calendar[3], Calendar[4], Calendar[5], Calendar[6],
       Calendar[7], <<2, 23>>>>}

LongInit ==
    \E trading_days \in LongDayLists, rows \in StartRows,
       prm \in {q \in ParamChoices : q.number_of_stocks = 1} :
       /\ MARKET_DATA = <<[datetime |-> trading_days[1], rows |-> rows]>>
       /\ simulation = NewSimulation(trading_days, MARKET_DATA)
       /\ portfolio = NewPortfolio(FromInt(InitialBalance))
       /\ params = prm
       /\ need_rebalance = "no"
       /\ top_stocks = <<>>
       /\ peak_prices = <<>>
       /\ portfolio_statistics = <<>>
       /\ rebalance_log = <<>>
       /\ last_month = 0
       /\ items = <<>>
       /\ last_day = FALSE
       /\ todo = <<>>
       /\ buy_locals = NoLocals
       /\ pc = "init"
       /\ error = "none"
       /\ last_call = NoCall
       /\ runs = <<>>

SpecLong == LongInit /\ [][Next]_vars

(***************************************************************************)
(* A backtest over a price feed that also holds prices of 0 and below: the  *)
(* loader reads the price column as it is (simulation.py lines 15-21).      *)
(***************************************************************************)
\* the rows of a day: BBB at 4, AAA at -1, 0 or 4 or not quoted
AnyPriceChoices ==
    {[s \in {"BBB"} |-> FromInt(4)]} \cup
    {[s \in Symbols |-> IF s = "AAA" THEN p ELSE FromInt(4)]
       : p \in {FromInt(0 - 1), Zero, FromInt(4)}}

\* the step over such a feed
StepAnyPrice == StepOver(AnyPriceChoices)

AnyPriceInit ==
    \E trading_days \in VolumeDayLists, rows \in StartRows,
       prm \in {q \in ParamChoices : q.stock_weight_option = "equal"} :
       /\ MARKET_DATA = <<[datetime |-> trading_days[1], rows |-> rows]>>
       /\ simulation = NewSimulation(trading_days, MARKET_DATA)
       /\ portfolio = NewPortfolio(FromInt(InitialBalance))
       /\ params = prm
       /\ need_rebalance = "no"
       /\ top_stocks = <<>>
       /\ peak_prices = <<>>
       /\ portfolio_statistics = <<>>
       /\ rebalance_log = <<>>
       /\ last_month = 0
       /\ items = <<>>
       /\ last_day = FALSE
       /\ todo = <<>>
       /\ buy_locals = NoLocals
       /\ pc = "init"
       /\ error = "none"
       /\ last_call = NoCall
       /\ runs = <<>>

AnyPriceNext ==
    \/ RunStart
    \/ StepAnyPrice
    \/ Finish
    \/ RebalanceSell
    \/ RebalanceBuyBegin
    \/ RebalanceBuy
    \/ RiskExit
    \/ Record

SpecAnyPrice == AnyPriceInit /\ [][AnyPriceNext]_vars

(***************************************************************************)
(* The ledger on its own: any sequence of Portfolio.add_asset and           *)
(* Portfolio.remove_asset calls, a raising call included.                   *)
(***************************************************************************)
MaxCalls == 3
MaxQuantity == 2

\* total_cost / total_revenue arguments
Amounts == {FromInt(1), FromInt(3)}

LedgerDates == {Calendar[1], Calendar[2]}

PortfolioInit ==
    /\ MARKET_DATA = <<[datetime |-> Calendar[1], rows |-> [s \in Symbols |-> FromInt(1)]]>>
    /\ simulation = NewSimulation(<<Calendar[1]>>, MARKET_DATA)
    /\ portfolio = NewPortfolio(FromInt(InitialBalance))
    /\ params \in {q \in ParamChoices : q.number_of_stocks = 1}
    /\ need_rebalance = "no"
    /\ top_stocks = <<>>
    /\ peak_prices = <<>>
    /\ portfolio_statistics = <<>>
    /\ rebalance_log = <<>>
    /\ last_month = 0
    /\ items = <<>>
    /\ last_day = FALSE
    /\ todo = <<>>
    /\ buy_locals = NoLocals
    /\ pc = "ledger"
    /\ error = "none"
    /\ last_call = NoCall
    /\ runs = <<>>

\* portfolio.add_asset(asset_name, quantity, total_cost, price, transaction_date)
AddAsset ==
    /\ pc = "ledger"
    /\ last_call.seq < MaxCalls
    /\ \E asset_name \in Symbols, quantity \in 1..MaxQuantity, total_cost \in Amounts :
         /\ portfolio' = add_asset(portfolio, asset_name, quantity, total_cost,
                                   RDiv(total_cost, FromInt(quantity)), Calendar[1])
         /\ last_call' = [op |-> "add_asset", asset |-> asset_name,
                          quantity |-> quantity, ok |-> TRUE, seq |-> last_call.seq + 1]
    /\ error' = "none"
    /\ UNCHANGED <<runs, MARKET_DATA, simulation, params, need_rebalance, top_stocks,
                   peak_prices, portfolio_statistics, rebalance_log, last_month,
                   items, last_day, todo, buy_locals, pc>>

\* portfolio.remove_asset(asset_name, quantity, total_revenue, price, transaction_date)
RemoveAsset ==
    /\ pc = "ledger"
    /\ last_call.seq < MaxCalls
    /\ \E asset_name \in Symbols, quantity \in 1..MaxQuantity, total_revenue \in Amounts,
          transaction_date \in LedgerDates :
         LET raises == remove_asset_raises(portfolio, asset_name, quantity)
         IN  /\ portfolio' = IF raises THEN portfolio
                             ELSE remove_asset(portfolio, asset_name, quantity,
                                               total_revenue,
                                               RDiv(total_revenue, FromInt(quantity)),
                                               transaction_date)
             /\ error' = IF raises THEN "ValueError" ELSE "none"
             /\ last_call' = [op |-> "remove_asset", asset |-> asset_name,
                              quantity |-> quantity, ok |-> ~raises,
                              seq |-> last_call.seq + 1]
    /\ UNCHANGED <<runs, MARKET_DATA, simulation, params, need_rebalance, top_stocks,
                   peak_prices, portfolio_statistics, rebalance_log, last_month,
                   items, last_day, todo, buy_locals, pc>>

PortfolioNext == AddAsset \/ RemoveAsset

SpecPortfolio == PortfolioInit /\ [][PortfolioNext]_vars

(***************************************************************************)
(* The market replay on its own: a whole price table, dates before the      *)
(* start and after the cursor included, and any sequence of step and        *)
(* get_last_available_price calls.                                          *)
(***************************************************************************)
MaxTableDays == 4

\* the rows one date of the table can hold
MarketRows ==
    {[s \in {"AAA"} |-> FromInt(3)],
     [s \in {"BBB"} |-> FromInt(4)],
     [s \in Symbols |-> IF s = "AAA" THEN FromInt(5) ELSE FromInt(4)]}

\* MARKET_DATA over the first n dates: one entry per date, in ascending order
MarketTables(n) ==
    {[i \in 1..n |-> [datetime |-> Calendar[i], rows |-> f[i]]] :
        f \in [1..n -> MarketRows]}

\* _get_trading_days for start_date = the i-th and end_date = the j-th date
TradingDaysBetween(md, i, j) == [k \in 1..(j - i + 1) |-> md[i + k - 1].datetime]

MarketCall(op, asset, quantity, ok) ==
    [op |-> op, asset |-> asset, quantity |-> quantity, ok |-> ok, seq |-> 0]

MarketInit ==
    /\ MARKET_DATA \in MarketTables(Min(MaxTableDays, Len(Calendar)))
    /\ \E i, j \in 1..Len(MARKET_DATA) :
          /\ i <= j
          /\ simulation = NewSimulation(TradingDaysBetween(MARKET_DATA, i, j),
                                        MARKET_DATA)
    /\ portfolio = NewPortfolio(FromInt(InitialBalance))
    /\ params \in {q \in ParamChoices : q.number_of_stocks = 1}
    /\ need_rebalance = "no"
    /\ top_stocks = <<>>
    /\ peak_prices = <<>>
    /\ portfolio_statistics = <<>>
    /\ rebalance_log = <<>>
    /\ last_month = 0
    /\ items = <<>>
    /\ last_day = FALSE
    /\ todo = <<>>
    /\ buy_locals = NoLocals
    /\ pc = "market"
    /\ error = "none"
    /\ last_call = NoCall
    /\ runs = <<>>

\* simulation.step(), returning True or False
MarketStep ==
    /\ pc = "market"
    /\ simulation' = IF step_advances(simulation)
                     THEN step(simulation, MARKET_DATA)
                     ELSE simulation
    /\ last_call' = MarketCall("step", "", 0, step_advances(simulation))
    /\ error' = "none"
    /\ UNCHANGED <<runs, MARKET_DATA, portfolio, params, need_rebalance, top_stocks,
                   peak_prices, portfolio_statistics, rebalance_log, last_month,
                   items, last_day, todo, buy_locals, pc>>

\* simulation.get_last_available_price(asset)
MarketLookup ==
    /\ pc = "market"
    /\ \E asset \in Symbols :
         /\ simulation' = cache_last_available_price(simulation, MARKET_DATA, asset)
         /\ last_call' = MarketCall("lookup", asset, 0, TRUE)
    /\ error' = "none"
    /\ UNCHANGED <<runs, MARKET_DATA, portfolio, params, need_rebalance, top_stocks,
                   peak_prices, portfolio_statistics, rebalance_log, last_month,
                   items, last_day, todo, buy_locals, pc>>

MarketNext == MarketStep \/ MarketLookup

SpecMarket == MarketInit /\ [][MarketNext]_vars

(***************************************************************************)
(* Trades on their own: the replay stepped over a short table and any       *)
(* sequence of Backtesting.buy and Backtesting.sell calls.                  *)
(***************************************************************************)
TradeDays == 2
MaxTrades == 2

\* quantity arguments of buy and sell
OrderQuantities == {1, 7}

TradeInit ==
    /\ MARKET_DATA \in MarketTables(Min(TradeDays, Len(Calendar)))
    /\ simulation = NewSimulation(
                        TradingDaysBetween(MARKET_DATA, 1, Len(MARKET_DATA)),
                        MARKET_DATA)
    /\ portfolio = NewPortfolio(FromInt(InitialBalance))
    /\ params \in {q \in ParamChoices : q.number_of_stocks = 1}
    /\ need_rebalance = "no"
    /\ top_stocks = <<>>
    /\ peak_prices = <<>>
    /\ portfolio_statistics = <<>>
    /\ rebalance_log = <<>>
    /\ last_month = 0
    /\ items = <<>>
    /\ last_day = FALSE
    /\ todo = <<>>
    /\ buy_locals = NoLocals
    /\ pc = "market"
    /\ error = "none"
    /\ last_call = NoCall
    /\ runs = <<>>

\* Backtesting.buy(symbol, quantity)
TradeBuy ==
    /\ pc = "market"
    /\ Len(portfolio.transactions) < MaxTrades
    /\ \E symbol \in Symbols, quantity \in OrderQuantities :
         LET r == buy(simulation, portfolio, symbol, quantity)
         IN  /\ portfolio' = r.portfolio
             /\ last_call' = MarketCall("buy", symbol, quantity, r.ok)
    /\ error' = "none"
    /\ UNCHANGED <<runs, MARKET_DATA, simulation, params, need_rebalance, top_stocks,
                   peak_prices, portfolio_statistics, rebalance_log, last_month,
                   items, last_day, todo, buy_locals, pc>>

\* Backtesting.sell(asset, quantity)
TradeSell ==
    /\ pc = "market"
    /\ Len(portfolio.transactions) < MaxTrades
    /\ \E asset \in Symbols, quantity \in OrderQuantities :
         LET r == sell(simulation, portfolio, asset, quantity)
         IN  /\ portfolio' = r.portfolio
             /\ last_call' = MarketCall("sell", asset, quantity, r.ok)
             /\ error' = IF r.raised THEN "ValueError" ELSE "none"
    /\ UNCHANGED <<runs, MARKET_DATA, simulation, params, need_rebalance, top_stocks,
                   peak_prices, portfolio_statistics, rebalance_log, last_month,
                   items, last_day, todo, buy_locals, pc>>

TradeNext == MarketStep \/ TradeBuy \/ TradeSell

SpecTrade == TradeInit /\ [][TradeNext]_vars

(***************************************************************************)
(* Two backtests side by side: each has its own MarketSimulation and        *)
(* Portfolio, both read the class attribute MARKET_DATA, and their calls    *)
(* are interleaved in any order.                                            *)
(***************************************************************************)
MaxRunCalls == 2

RunIds == {1, 2}

\* two-day price tables
SharedTables ==
    {<<[datetime |-> Calendar[1], rows |-> [s \in {"AAA"} |-> FromInt(3)]],
       [datetime |-> Calendar[2],
        rows |-> [s \in Symbols |-> IF s = "AAA" THEN FromInt(5) ELSE FromInt(4)]]>>,
     <<[datetime |-> Calendar[1], rows |-> [s \in {"BBB"} |-> FromInt(4)]],
       [datetime |-> Calendar[2], rows |-> [s \in {"AAA"} |-> FromInt(3)]]>>}

\* the calls a backtest makes on its simulation and portfolio
RunCalls ==
    {[op |-> "step", asset |-> "", quantity |-> 0],
     [op |-> "statistics", asset |-> "", quantity |-> 0],
     [op |-> "buy", asset |-> "AAA", quantity |-> 1],
     [op |-> "sell", asset |-> "AAA", quantity |-> 1]} \cup
    {[op |-> "lookup", asset |-> a, quantity |-> 0] : a \in Symbols}

\* a backtest as constructed: MarketSimulation(start, end), Portfolio(balance)
NewRun(md, trading_days) ==
    [simulation |-> NewSimulation(trading_days, md),
     portfolio |-> NewPortfolio(FromInt(InitialBalance)),
     portfolio_statistics |-> <<>>,
     calls |-> <<>>]

\* mutant: get_last_available_price keeps in the dataset only the rows it
\* selected
MARKET_DATA_filtered_in_place(md, sim, call) ==
    IF call.op = "lookup"
    THEN LET Selected(e) == DateLe(e.datetime, sim.current_date) /\ call.asset \in DOMAIN e.rows
         IN  SelectSeq(md, Selected)
    ELSE md

\* MarketSimulation.MARKET_DATA after a call of a backtest: every method
\* reads it through selections that build new frames, none assigns to it
MARKET_DATA_after(md, sim, call) == md

\* the backtest after one of its calls, given the dataset it reads
ApplyCall(run, md, call) ==
    LET sim == run.simulation
        done == [run EXCEPT !.calls = Append(@, call)]
    IN  CASE call.op = "step" ->
               [done EXCEPT !.simulation = IF step_advances(sim) THEN step(sim, md)
                                           ELSE sim]
          [] call.op = "lookup" ->
               [done EXCEPT !.simulation =
                               cache_last_available_price(sim, md, call.asset)]
          [] call.op = "buy" ->
               [done EXCEPT !.portfolio =
                               buy(sim, run.portfolio, call.asset, call.quantity).portfolio]
          [] call.op = "sell" ->
               [done EXCEPT !.portfolio =
                               sell(sim, run.portfolio, call.asset, call.quantity).portfolio]
          [] call.op = "statistics" ->
               IF portfolio_statistics_raises(sim, run.portfolio) THEN done
               ELSE [done EXCEPT !.portfolio_statistics =
                                    Append(@, get_portfolio_statistics(sim, run.portfolio))]

SharedInit ==
    /\ MARKET_DATA \in SharedTables
    /\ \E i \in 1..Len(MARKET_DATA) :
          runs = [r \in RunIds |->
                    NewRun(MARKET_DATA,
                           TradingDaysBetween(MARKET_DATA, IF r = 1 THEN 1 ELSE i,
                                              Len(MARKET_DATA)))]
    /\ simulation = NewSimulation(
                        TradingDaysBetween(MARKET_DATA, 1, Len(MARKET_DATA)),
                        MARKET_DATA)
    /\ portfolio = NewPortfolio(FromInt(InitialBalance))
    /\ params \in {q \in ParamChoices : q.number_of_stocks = 1}
    /\ need_rebalance = "no"
    /\ top_stocks = <<>>
    /\ peak_prices = <<>>
    /\ portfolio_statistics = <<>>
    /\ rebalance_log = <<>>
    /\ last_month = 0
    /\ items = <<>>
    /\ last_day = FALSE
    /\ todo = <<>>
    /\ buy_locals = NoLocals
    /\ pc = "shared"
    /\ error = "none"
    /\ last_call = NoCall

\* backtest r makes a call: its own objects change, the dataset is read
RunCall(r, call) ==
    /\ pc = "shared"
    /\ Len(runs[r].calls) < MaxRunCalls
    /\ runs' = [runs EXCEPT ![r] = ApplyCall(@, MARKET_DATA, call)]
    /\ MARKET_DATA' = MARKET_DATA_after(MARKET_DATA, runs[r].simulation, call)
    /\ UNCHANGED <<simulation, portfolio, params, need_rebalance, top_stocks,
                   peak_prices, portfolio_statistics, rebalance_log, last_month,
                   items, last_day, todo, buy_locals, pc, error, last_call>>

\* simulation.step() of one of the backtests
RunStep ==
    \E r \in RunIds, call \in RunCalls : call.op = "step" /\ RunCall(r, call)

\* simulation.get_last_available_price(asset) of one of the backtests
RunLookup ==
    \E r \in RunIds, call \in RunCalls : call.op = "lookup" /\ RunCall(r, call)

\* Backtesting.buy(symbol, quantity) of one of the backtests
RunBuy ==
    \E r \in RunIds, call \in RunCalls : call.op = "buy" /\ RunCall(r, call)

\* Backtesting.sell(asset, quantity) of one of the backtests
RunSell ==
    \E r \in RunIds, call \in RunCalls : call.op = "sell" /\ RunCall(r, call)

\* simulation.get_portfolio_statistics(portfolio) of one of the backtests
RunStatistics ==
    \E r \in RunIds, call \in RunCalls : call.op = "statistics" /\ RunCall(r, call)

SharedNext == RunStep \/ RunLookup \/ RunBuy \/ RunSell \/ RunStatistics

SpecShared == SharedInit /\ [][SharedNext]_vars

(***************************************************************************)
(* Properties of the ledger (checked under SpecPortfolio).                  *)
(***************************************************************************)
RECURSIVE LedgerSum(_)
\* the cash the logged transactions account for: revenues less costs
LedgerSum(txs) ==
    IF txs = <<>> THEN Zero
    ELSE LET t == Head(txs)
         IN  RAdd(IF t.action = "buy" THEN RNeg(t.total_cost) ELSE t.total_revenue,
                  LedgerSum(Tail(txs)))

\* C1: after any sequence of add_asset / remove_asset calls the balance is the
\* initial balance less the total_cost of every logged buy plus the
\* total_revenue of every logged sell.
C1_CashLedger ==
    portfolio.balance =
        RAdd(portfolio.initial_balance, LedgerSum(portfolio.transactions))

\* C1 witness: the log holds a buy and a sell and the balance has moved
C1_Witness ==
    /\ pc = "ledger"
    /\ \E i, j \in 1..Len(portfolio.transactions) :
          /\ portfolio.transactions[i].action = "buy"
          /\ portfolio.transactions[j].action = "sell"
    /\ portfolio.balance # portfolio.initial_balance

\* C2: a remove_asset call for a symbol that is not held, or for more than is
\* held, raises and leaves the whole portfolio (balance, positions, realized
\* P&L, transaction log, daily aggregates) as it was.
C2_RemoveRefused ==
    [][(/\ last_call'.seq # last_call.seq
        /\ last_call'.op = "remove_asset"
        /\ \/ last_call'.asset \notin Held(portfolio)
           \/ last_call'.quantity > AssetData(portfolio, last_call'.asset).quantity)
       => (/\ error' = "ValueError"
           /\ ~last_call'.ok
           /\ portfolio' = portfolio)]_vars

\* C2 witness: a refused call for more than the quantity held of a held symbol,
\* made after earlier trades
C2_Witness ==
    /\ pc = "ledger"
    /\ error = "ValueError"
    /\ last_call.op = "remove_asset"
    /\ last_call.asset \in Held(portfolio)
    /\ last_call.quantity > AssetData(portfolio, last_call.asset).quantity
    /\ portfolio.daily_statistics.number_of_trades > 0

\* C4: every entry of assets has quantity > 0.
C4_PositiveQuantities ==
    \A i \in 1..Len(portfolio.assets) : portfolio.assets[i].quantity > 0

\* C4 witness: a remove_asset call has sold a position out and its entry is
\* gone, while another position is still held
C4_Witness ==
    /\ pc = "ledger"
    /\ last_call.op = "remove_asset"
    /\ last_call.ok
    /\ last_call.asset \notin Held(portfolio)
    /\ portfolio.assets # <<>>

(***************************************************************************)
(* Properties of a backtest (checked under Spec).                           *)
(***************************************************************************)
\* C3: when Backtesting.buy or Backtesting.sell does not return True, nothing
\* was raised, the portfolio is unchanged and the loop goes on to its next
\* symbol.
C3_FailedTradeLeavesLedger ==
    [][(/\ last_call'.seq # last_call.seq
        /\ last_call'.op \in {"buy", "sell"}
        /\ ~last_call'.ok)
       => (/\ portfolio' = portfolio
           /\ error' = "none"
           /\ pc' = pc
           /\ todo' = Tail(todo))]_vars

\* C3 witness: a sale of a held position has failed and the run goes on
C3_Witness ==
    /\ last_call.op = "sell"
    /\ ~last_call.ok
    /\ last_call.asset \in Held(portfolio)
    /\ last_call.quantity > 0
    /\ pc \in {"sell_phase", "exits"}

C6_LiquidatedAtEnd == pc = "done" => portfolio.assets = <<>>

\* a processed day is over: its snapshot has been recorded
EndOfDay ==
    /\ pc \in {"loop", "done"}
    /\ simulation.current_trading_day_index >= 1

\* C7: at the end of a day no held symbol has a current price at or below
\* peak_price * (1 - trailing_stop_loss) for its recorded peak.
C7_TrailingStopLiquidates ==
    EndOfDay =>
      \A s \in Held(portfolio) \cap DOMAIN peak_prices :
         ~RLe(CachedPrice(simulation, s),
              RMul(peak_prices[s], RSub(FromInt(1), TRAILING_STOP_LOSS)))

\* the day the position held in s was opened: its first buy after the last
\* sale of s (every sale of a run is for the whole position)
OpenedAt(p, s) ==
    LET T == p.transactions
        sells == {i \in 1..Len(T) : T[i].asset = s /\ T[i].action = "sell"}
        last_sell == IF sells = {} THEN 0
                     ELSE CHOOSE i \in sells : \A j \in sells : j <= i
        buys == {i \in 1..Len(T) : i > last_sell /\ T[i].asset = s /\ T[i].action = "buy"}
    IN  T[CHOOSE i \in buys : \A j \in buys : i <= j].datetime

\* the highest price of s quoted from day d on
PeakSince(md, s, d) ==
    LET I == {i \in 1..Len(md) : s \in DOMAIN md[i].rows /\ DateLe(d, md[i].datetime)}
    IN  md[CHOOSE i \in I : \A j \in I : RLe(md[j].rows[s], md[i].rows[s])].rows[s]

\* C8: the peak recorded for a held symbol counts no price from before the
\* position was opened: it is at most the highest price quoted since the day
\* the position was bought.
C8_PeakResetOnRemoval ==
    EndOfDay =>
      \A s \in Held(portfolio) \cap DOMAIN peak_prices :
         RLe(peak_prices[s], PeakSince(MARKET_DATA, s, OpenedAt(portfolio, s)))

\* C9: while a symbol stays held its recorded peak never decreases, and after
\* an evaluation of a held symbol the peak is at least the price evaluated.
C9_PeakMonotone ==
    [][/\ \A s \in Held(portfolio) \cap Held(portfolio') \cap DOMAIN peak_prices :
             /\ s \in DOMAIN peak_prices'
             /\ RLe(peak_prices[s], peak_prices'[s])
       /\ (/\ pc = "exits"
           /\ todo # <<>>
           /\ ~last_day
           /\ Head(todo) \in Held(portfolio)
           /\ RLt(Zero, last_available_price(simulation, MARKET_DATA, Head(todo))))
          => (/\ Head(todo) \in DOMAIN peak_prices'
              /\ RLe(last_available_price(simulation, MARKET_DATA, Head(todo)),
                     peak_prices'[Head(todo)]))]_vars

\* C9 witness: a held symbol has been evaluated below its recorded peak and
\* is still held
C9_Witness ==
    /\ EndOfDay
    /\ \E s \in Held(portfolio) \cap DOMAIN peak_prices :
          RLt(CachedPrice(simulation, s), peak_prices[s])

\* no rebalance is pending
NonePending(need) == need \in {"no", "None"}

\* a BUY entry of the log directly follows a SELL entry of the same month and
\* an earlier day
BuyFollowsSell(log, i) ==
    /\ i > 1
    /\ log[i - 1].phase = "sell"
    /\ log[i - 1].date[1] = log[i].date[1]
    /\ log[i - 1].date[2] < log[i].date[2]

DayIndex(sim, d) ==
    CHOOSE k \in 0..(Len(sim.trading_days) - 1) : sim.trading_days[k + 1] = d

\* the log entry after the i-th is the BUY phase of the trading day after it
BuyOnNextDay(i) ==
    /\ i < Len(rebalance_log)
    /\ rebalance_log[i + 1].phase = "buy"
    /\ rebalance_log[i + 1].date =
          simulation.trading_days[DayIndex(simulation, rebalance_log[i].date) + 2]

\* a BUY phase that follows a SELL phase sizes on 90% of the cash recorded at
\* the end of the SELL day
BuyUsesCashAfterSells ==
    (/\ pc = "buy_phase"
     /\ Len(rebalance_log) >= 2
     /\ rebalance_log[Len(rebalance_log) - 1].phase = "sell")
    => buy_locals.available_balance =
          RMul(portfolio_statistics[Len(portfolio_statistics)].cash, <<9, 10>>)

\* C11 as stated: once the day after a SELL phase is over, the BUY phase has
\* run on that day, on the cash left by the sells.
C11_BuyFollowsEverySell ==
    /\ BuyUsesCashAfterSells
    /\ EndOfDay =>
         \A i \in 1..Len(rebalance_log) :
            (/\ rebalance_log[i].phase = "sell"
             /\ DayIndex(simulation, rebalance_log[i].date)
                   < simulation.current_trading_day_index)
            => BuyOnNextDay(i)

\* C11 amended: the BUY phase runs on the day after a SELL phase when that
\* day is in the same month and is not the last trading day, on the cash left
\* by the sells; otherwise no BUY phase follows that SELL phase.
C11_BuyFollowsSell ==
    /\ BuyUsesCashAfterSells
    /\ EndOfDay =>
         \A i \in 1..Len(rebalance_log) :
            (/\ rebalance_log[i].phase = "sell"
             /\ DayIndex(simulation, rebalance_log[i].date)
                   < simulation.current_trading_day_index)
            => LET k == DayIndex(simulation, rebalance_log[i].date)
                   next == simulation.trading_days[k + 2]
               IN  IF k + 1 < Len(simulation.trading_days) - 1
                      /\ next[1] = rebalance_log[i].date[1]
                   THEN BuyOnNextDay(i)
                   ELSE ~(i < Len(rebalance_log) /\ rebalance_log[i + 1].phase = "buy")

\* C11 witness: the day after a SELL phase is over and its BUY phase has
\* bought a position
C11_Witness ==
    /\ EndOfDay
    /\ Len(rebalance_log) >= 2
    /\ rebalance_log[Len(rebalance_log) - 1].phase = "sell"
    /\ rebalance_log[Len(rebalance_log)].phase = "buy"
    /\ rebalance_log[Len(rebalance_log)].date = simulation.current_date
    /\ last_call.op = "buy"
    /\ last_call.ok

\* C12: when run has returned, the snapshots are those of the trading days,
\* the first included, one each and in order.
C12_SnapshotEveryDay ==
    pc = "done" =>
       [i \in 1..Len(portfolio_statistics) |-> portfolio_statistics[i].datetime]
          = simulation.trading_days

(***************************************************************************)
(* Properties of the market replay (checked under SpecMarket).              *)
(***************************************************************************)
\* C13: a step() call off the last trading day moves the cursor to the next
\* trading day, a strictly later date, and returns True; on the last trading
\* day it returns False and leaves the simulation as it was; the cursor never
\* passes the last day, so step() returns True len(trading_days) - 1 times.
C13_StepAdvances ==
    [][/\ last_call'.op = "step" =>
            IF simulation.current_trading_day_index + 1 < Len(simulation.trading_days)
            THEN /\ last_call'.ok
                 /\ simulation'.trading_days = simulation.trading_days
                 /\ simulation'.current_trading_day_index
                       = simulation.current_trading_day_index + 1
                 /\ simulation'.current_date
                       = simulation.trading_days[simulation.current_trading_day_index + 2]
                 /\ ~DateLe(simulation'.current_date, simulation.current_date)
            ELSE /\ ~last_call'.ok
                 /\ simulation' = simulation
       /\ simulation'.current_trading_day_index < Len(simulation'.trading_days)]_vars

\* C13 witness: step() has returned False after the cursor crossed two days
C13_Witness ==
    /\ pc = "market"
    /\ last_call.op = "step"
    /\ ~last_call.ok
    /\ simulation.current_trading_day_index >= 2

\* the rows of the k-th trading day (from 0)
RowsOfDay(md, sim, k) == MARKET_DATA_BY_DATE(md, sim.trading_days[k + 1])

\* a symbol quoted on a day the cursor has stepped to is cached at its price
\* on the latest such day
CacheIsLatestVisited(md, sim) ==
    \A s \in Symbols :
       LET V == {k \in 1..sim.current_trading_day_index :
                    s \in DOMAIN RowsOfDay(md, sim, k)}
       IN  V # {} =>
             /\ s \in DOMAIN sim.latest_price_cache
             /\ sim.latest_price_cache[s] =
                   RowsOfDay(md, sim, CHOOSE k \in V : \A j \in V : j <= k)[s]

C15_QuoteAtLastKnownPrice ==
    pc = "market" =>
      \A s \in Symbols :
         LET known == last_available_price(simulation, MARKET_DATA, s)
             buy_info == buy_stock(simulation, s, 1)
             sell_info == sell_stock(simulation, s, 1)
         IN  (s \notin DOMAIN simulation.current_data /\ RLt(Zero, known)) =>
                /\ buy_info # <<>>
                /\ buy_info.price = known
                /\ sell_info # <<>>
                /\ sell_info.price = known

\* the latest price of s on a date at or before d, 0 if there is none
LatestPrice(md, s, d) ==
    LET I == {i \in 1..Len(md) : s \in DOMAIN md[i].rows /\ DateLe(md[i].datetime, d)}
    IN  IF I = {} THEN Zero
        ELSE md[CHOOSE i \in I :
                   \A j \in I : DateLe(md[j].datetime, md[i].datetime)].rows[s]

\* what get_last_available_price returns is the latest price up to today
LookupIsLatest(md, sim) ==
    \A s \in Symbols :
       last_available_price(sim, md, s) = LatestPrice(md, s, sim.current_date)

\* C16: a get_last_available_price call leaves the cursor, the date and the
\* day's rows as they were and changes the value of no symbol's lookup, its
\* own included; the value is the symbol's latest price at or before the
\* current day, 0 if it has none.
C16_LastAvailablePrice ==
    [][/\ last_call'.op = "lookup" =>
            /\ simulation'.current_trading_day_index
                  = simulation.current_trading_day_index
            /\ simulation'.current_date = simulation.current_date
            /\ simulation'.current_data = simulation.current_data
            /\ simulation'.trading_days = simulation.trading_days
            /\ \A s \in Symbols :
                  last_available_price(simulation', MARKET_DATA', s)
                     = last_available_price(simulation, MARKET_DATA, s)
       /\ LookupIsLatest(MARKET_DATA, simulation)
       /\ LookupIsLatest(MARKET_DATA', simulation')]_vars

\* C16 witness: a lookup has cached a price found on a date before the start
\* date, for a symbol that is quoted again on a date after the cursor
C16_Witness ==
    /\ pc = "market"
    /\ last_call.op = "lookup"
    /\ last_call.asset \in DOMAIN simulation.latest_price_cache
    /\ RLt(Zero, simulation.latest_price_cache[last_call.asset])
    /\ \A k \in 0..simulation.current_trading_day_index :
          last_call.asset \notin DOMAIN RowsOfDay(MARKET_DATA, simulation, k)
    /\ \E i \in 1..Len(MARKET_DATA) :
          /\ last_call.asset \in DOMAIN MARKET_DATA[i].rows
          /\ ~DateLe(MARKET_DATA[i].datetime, simulation.current_date)

\* C17: during a run every held symbol has an entry in the price cache, so
\* get_portfolio_statistics does not raise.
C17_HeldSymbolsCached ==
    /\ Held(portfolio) \subseteq DOMAIN simulation.latest_price_cache
    /\ ~portfolio_statistics_raises(simulation, portfolio)

\* C17 witness: at the end of a day a held symbol has no row on that day and
\* is valued at its cached price
C17_Witness ==
    /\ EndOfDay
    /\ \E s \in Held(portfolio) : s \notin DOMAIN simulation.current_data
    /\ portfolio_statistics[Len(portfolio_statistics)].datetime = simulation.current_date
    /\ RLt(portfolio_statistics[Len(portfolio_statistics)].cash,
           portfolio_statistics[Len(portfolio_statistics)].total_assets)

\* the open position of s according to the transaction log: the quantity
\* held, the total cost of the buys since the position was opened, and
\* whether no sell of s happened since then
RECURSIVE OpenPosition(_, _)
OpenPosition(txs, s) ==
    IF txs = <<>> THEN [quantity |-> 0, total_cost |-> Zero, only_buys |-> TRUE]
    ELSE LET r == OpenPosition(SubSeq(txs, 1, Len(txs) - 1), s)
             t == txs[Len(txs)]
         IN  IF t.asset # s THEN r
             ELSE IF t.action = "buy"
             THEN [r EXCEPT !.quantity = @ + t.quantity,
                            !.total_cost = RAdd(@, t.total_cost)]
             ELSE IF r.quantity - t.quantity <= 0
             THEN [quantity |-> 0, total_cost |-> Zero, only_buys |-> TRUE]
             ELSE [r EXCEPT !.quantity = @ - t.quantity, !.only_buys = FALSE]

\* the average cost of a position built by buys alone is the buys' total
\* cost over their total quantity
AverageOfBuys(p) ==
    \A s \in Held(p) :
       LET r == OpenPosition(p.transactions, s)
       IN  r.only_buys =>
              /\ AssetData(p, s).quantity = r.quantity
              /\ AssetData(p, s).average_price
                    = RDiv(r.total_cost, FromInt(r.quantity))

\* C18: after buys of one symbol with no sell of it in between the average
\* cost is (sum of the buys' total_cost) / (sum of their quantities), and a
\* partial sell leaves the average cost of what remains unchanged.
C18_AverageCost ==
    [][/\ AverageOfBuys(portfolio')
       /\ (/\ last_call'.op = "remove_asset"
           /\ last_call'.ok
           /\ last_call'.asset \in Held(portfolio'))
          => AssetData(portfolio', last_call'.asset).average_price
                = AssetData(portfolio, last_call'.asset).average_price]_vars

\* C18 witness: two buys of a symbol at different unit costs, then a partial
\* sell of it
C18_Witness ==
    /\ pc = "ledger"
    /\ Len(portfolio.transactions) = 3
    /\ portfolio.transactions[1].action = "buy"
    /\ portfolio.transactions[2].action = "buy"
    /\ portfolio.transactions[3].action = "sell"
    /\ \A i \in 1..3 : portfolio.transactions[i].asset = last_call.asset
    /\ portfolio.transactions[1].price # portfolio.transactions[2].price
    /\ last_call.asset \in Held(portfolio)
    /\ AssetData(portfolio, last_call.asset).average_price
          = RDiv(RAdd(portfolio.transactions[1].total_cost,
                      portfolio.transactions[2].total_cost),
                 FromInt(portfolio.transactions[1].quantity
                         + portfolio.transactions[2].quantity))

\* the ledger holds exactly a buy of a symbol and then a sale of the same
\* quantity of it at the same price
RoundTrip ==
    /\ pc = "market"
    /\ Len(portfolio.transactions) = 2
    /\ portfolio.transactions[1].action = "buy"
    /\ portfolio.transactions[2].action = "sell"
    /\ portfolio.transactions[2].asset = portfolio.transactions[1].asset
    /\ portfolio.transactions[2].quantity = portfolio.transactions[1].quantity
    /\ portfolio.transactions[2].price = portfolio.transactions[1].price

\* C19: buying q shares of a symbol not held at price p and selling all q at
\* the same price gives a realized P&L of -2*p*q*fee, negative for a positive
\* fee, and the cash balance changes by the same amount.
C19_RoundTripCost ==
    RoundTrip =>
      LET t == portfolio.transactions[1]
          fees == RMul(FromInt(2),
                       RMul(RMul(t.price, FromInt(t.quantity)), TRADING_FEE))
      IN  /\ portfolio.realized_profit_loss = RNeg(fees)
          /\ RSub(portfolio.balance, portfolio.initial_balance) = RNeg(fees)
          /\ (RLt(Zero, TRADING_FEE) => RLt(portfolio.realized_profit_loss, Zero))
          /\ portfolio.assets = <<>>

\* C19 witness: a round trip of more than one share has been made
C19_Witness ==
    /\ RoundTrip
    /\ last_call.op = "sell"
    /\ last_call.ok
    /\ portfolio.transactions[1].quantity > 1
    /\ RLt(Zero, portfolio.transactions[1].price)

\* C20: a buy whose total cost is more than the cash balance is refused by
\* Backtesting.buy and leaves the ledger unchanged.
C20_BuyBeyondCashSkipped ==
    [][(/\ pc = "market"
        /\ last_call'.op = "buy"
        /\ buy_stock(simulation, last_call'.asset, last_call'.quantity) # <<>>
        /\ RLt(portfolio.balance,
               buy_stock(simulation, last_call'.asset,
                         last_call'.quantity).total_cost))
       => /\ ~last_call'.ok
          /\ portfolio' = portfolio]_vars

(***************************************************************************)
(* Properties of the BUY phase and of the transaction log of a run.         *)
(***************************************************************************)
\* the cash held when the running BUY phase began (available_balance is 90%
\* of it)
PhaseStartCash(locals) == RDiv(locals.available_balance, <<9, 10>>)

\* C21: in a BUY phase a symbol whose price is not positive is skipped, each
\* buy is for 1 to MAX_VOLUME shares and costs at most weight x 90% of the
\* cash held when the phase began, and the buys of the phase together cost at
\* most 90% of that cash.
C21_BuySizing ==
    [][/\ (pc = "buy_phase" /\ todo # <<>>) =>
            LET symbol == Head(todo)
                stock_price == buy_locals.latest_price_cache[symbol]
                allocated_funds == RMul(buy_locals.available_balance,
                                        buy_locals.weights[symbol])
                cost == RSub(portfolio.balance, portfolio'.balance)
            IN  /\ ~RLt(Zero, stock_price) =>
                      portfolio' = portfolio /\ last_call' = last_call
                /\ last_call' # last_call =>
                      /\ last_call'.op = "buy"
                      /\ last_call'.asset = symbol
                      /\ last_call'.quantity >= 1
                      /\ last_call'.quantity <= MAX_VOLUME
                      /\ RLe(cost, allocated_funds)
       /\ pc' = "buy_phase" =>
            RLe(RSub(PhaseStartCash(buy_locals'), portfolio'.balance),
                buy_locals'.available_balance)]_vars

\* C21 witness: a BUY phase has bought MAX_VOLUME shares of a symbol, for
\* less than the funds allocated to it
C21_Witness ==
    /\ pc = "buy_phase"
    /\ last_call.op = "buy"
    /\ last_call.ok
    /\ last_call.quantity = MAX_VOLUME
    /\ last_call.asset \in DOMAIN buy_locals.weights
    /\ portfolio.transactions[Len(portfolio.transactions)].datetime
          = simulation.current_date
    /\ RLt(portfolio.transactions[Len(portfolio.transactions)].total_cost,
           RMul(buy_locals.available_balance, buy_locals.weights[last_call.asset]))

\* the sell transactions of the log dated d
SellsOn(txs, d) ==
    {i \in 1..Len(txs) : txs[i].action = "sell" /\ txs[i].datetime = d}

\* C22: the snapshot of a trading day reports as number_of_trades the number
\* of sell transactions of that day and as number_of_winners the number of
\* those with a realized P&L above 0, and all-zero aggregates for a day with
\* no sell.
C22_DailyCounters ==
    \A k \in 1..Len(portfolio_statistics) :
       LET snap == portfolio_statistics[k]
           sold == SellsOn(portfolio.transactions, snap.datetime)
           won == {i \in sold : RLt(Zero, portfolio.transactions[i].realized_pl)}
       IN  /\ snap.number_of_trades = Cardinality(sold)
           /\ snap.number_of_winners = Cardinality(won)
           /\ snap.number_of_winners <= snap.number_of_trades
           /\ sold = {} => snap.sum_of_winners = Zero /\ snap.sum_of_losers = Zero

\* C22 witness: a day with two sells, one of them a winner, is followed by a
\* day with no sell
C22_Witness ==
    \E i, j \in 1..Len(portfolio_statistics) :
       /\ i < j
       /\ portfolio_statistics[i].number_of_trades = 2
       /\ portfolio_statistics[i].number_of_winners = 1
       /\ portfolio_statistics[j].number_of_trades = 0

(***************************************************************************)
(* Properties of backtests that share the dataset (SpecShared).             *)
(***************************************************************************)
RECURSIVE Alone(_, _, _)
\* the backtest that makes the given calls with no other backtest around
Alone(calls, md, trading_days) ==
    IF calls = <<>> THEN NewRun(md, trading_days)
    ELSE ApplyCall(Alone(SubSeq(calls, 1, Len(calls) - 1), md, trading_days),
                   md, calls[Len(calls)])

C24_NoTradeAtNonPositivePrice ==
    \A i \in 1..Len(portfolio.transactions) :
       RLt(Zero, portfolio.transactions[i].price)

\* a trade attempted at a price of exactly 0 is refused and leaves the ledger
\* as it was, and the run goes on
ZeroPriceTradeSkipped ==
    [][(/\ last_call' # last_call
        /\ last_call'.asset \in DOMAIN simulation'.current_data
        /\ CachedPrice(simulation', last_call'.asset) = Zero)
       => /\ ~last_call'.ok
          /\ portfolio' = portfolio
          /\ pc' # "crashed"]_vars

\* the final trading day of the run
FinalTradingDay == simulation.trading_days[Len(simulation.trading_days)]

\* C25: every buy of the transaction log is dated on a trading day whose day
\* of the month is at least RELEASE_DAY and which is not the final trading
\* day of the run.
C25_BuysOnlyInBuyPhase ==
    \A i \in 1..Len(portfolio.transactions) :
       portfolio.transactions[i].action = "buy" =>
          /\ portfolio.transactions[i].datetime[2] >= RELEASE_DAY
          /\ portfolio.transactions[i].datetime # FinalTradingDay
          /\ \E k \in 1..Len(rebalance_log) :
                /\ rebalance_log[k].phase = "buy"
                /\ rebalance_log[k].date = portfolio.transactions[i].datetime

\* C25 witness: a finished run that went through a day before the release
\* day with a rebalance pending and bought later
C25_Witness ==
    /\ pc = "done"
    /\ Len(simulation.trading_days) >= 3
    /\ simulation.trading_days[2][2] < RELEASE_DAY
    /\ \E i \in 1..Len(portfolio.transactions) :
          portfolio.transactions[i].action = "buy"

(***************************************************************************)
(* Properties of the risk exits (SpecLong).                                 *)
(***************************************************************************)
\* a step of the risk-exit loop on a day that is not the last one has sold
\* (outside the SELL phase, which runs at pc "sell_phase")
RiskExitSold ==
    /\ pc = "exits"
    /\ ~last_day
    /\ last_call' # last_call
    /\ last_call'.op = "sell"
    /\ last_call'.ok

\* the take-profit condition: price >= average cost x (1 + take_profit)
TakeProfitMet(p, asset, price) ==
    RLe(RMul(AssetData(p, asset).average_price, RAdd(FromInt(1), TAKE_PROFIT)), price)

\* the trailing-stop condition: price <= peak x (1 - trailing_stop_loss)
TrailingStopMet(peak, price) ==
    RLe(price, RMul(peak, RSub(FromInt(1), TRAILING_STOP_LOSS)))

\* C26: a sale by the risk-exit loop on a day that is not the last one is for
\* the whole position and happens only if, at the day's price, the take
\* profit is met or the price is at or below (1 - trailing_stop_loss) of the
\* position's peak, the highest price since the position was opened.
C26_NoSpuriousExit ==
    [][RiskExitSold =>
         LET asset == last_call'.asset
             price == simulation'.current_data[asset]
         IN  /\ last_call'.quantity = AssetData(portfolio, asset).quantity
             /\ asset \notin Held(portfolio')
             /\ \/ TakeProfitMet(portfolio, asset, price)
                \/ TrailingStopMet(PeakSince(MARKET_DATA, asset,
                                             OpenedAt(portfolio, asset)), price)]_vars

\* the same with the peak the run has recorded, which a sale does not reset
ExitMeetsRecordedPeak ==
    [][RiskExitSold =>
         LET asset == last_call'.asset
             price == simulation'.current_data[asset]
         IN  /\ last_call'.quantity = AssetData(portfolio, asset).quantity
             /\ asset \notin Held(portfolio')
             /\ \/ TakeProfitMet(portfolio, asset, price)
                \/ TrailingStopMet(peak_prices'[asset], price)]_vars

(***************************************************************************)
(* Properties of the sizes of trades and of the portfolio.                  *)
(***************************************************************************)
\* C27: no transaction of the log, buy or sell, is for more than MAX_VOLUME
\* shares.
C27_VolumeCap ==
    \A i \in 1..Len(portfolio.transactions) :
       portfolio.transactions[i].quantity <= MAX_VOLUME

\* every buy of the log is for at most MAX_VOLUME shares
BuysWithinVolumeCap ==
    \A i \in 1..Len(portfolio.transactions) :
       portfolio.transactions[i].action = "buy" =>
          portfolio.transactions[i].quantity <= MAX_VOLUME

\* C28: during a run the portfolio holds at most number_of_stocks distinct
\* symbols.
C28_AtMostNSymbols ==
    Cardinality(Held(portfolio)) <= params.number_of_stocks

\* a BUY phase buys at most number_of_stocks distinct symbols
PhaseBuysAtMostN ==
    \A k \in 1..Len(rebalance_log) :
       Cardinality({portfolio.transactions[i].asset :
                       i \in {j \in 1..Len(portfolio.transactions) :
                                /\ portfolio.transactions[j].action = "buy"
                                /\ portfolio.transactions[j].datetime
                                      = rebalance_log[k].date}})
          <= params.number_of_stocks

(***************************************************************************)
(* The money balance of the ledger (SpecPortfolio).                         *)
(***************************************************************************)
RECURSIVE CostBasis(_)
\* sum over the held positions of quantity x average cost
CostBasis(assets) ==
    IF assets = <<>> THEN Zero
    ELSE RAdd(RMul(FromInt(Head(assets).quantity), Head(assets).average_price),
              CostBasis(Tail(assets)))

RECURSIVE RealizedSum(_)
\* sum of realized_pl over the logged sells
RealizedSum(txs) ==
    IF txs = <<>> THEN Zero
    ELSE RAdd(IF Head(txs).action = "sell" THEN Head(txs).realized_pl ELSE Zero,
              RealizedSum(Tail(txs)))

\* C29: after any sequence of buys and sells, balance + (sum over the held
\* positions of quantity x average cost) - realized_profit_loss is the
\* initial balance, realized_profit_loss is the sum of realized_pl over the
\* logged sells, and with no position open balance - initial_balance is
\* realized_profit_loss.
C29_MoneyBalances ==
    /\ RSub(RAdd(portfolio.balance, CostBasis(portfolio.assets)),
            portfolio.realized_profit_loss) = portfolio.initial_balance
    /\ portfolio.realized_profit_loss = RealizedSum(portfolio.transactions)
    /\ portfolio.assets = <<>> =>
          RSub(portfolio.balance, portfolio.initial_balance)
             = portfolio.realized_profit_loss

\* C29 witness: after a buy, a partial sale with a realized P&L other than 0
\* and a sale of the rest, no position is open
C29_Witness ==
    /\ pc = "ledger"
    /\ Len(portfolio.transactions) = 3
    /\ portfolio.transactions[1].action = "buy"
    /\ portfolio.transactions[2].action = "sell"
    /\ portfolio.transactions[3].action = "sell"
    /\ portfolio.transactions[2].realized_pl # Zero
    /\ portfolio.assets = <<>>
    /\ portfolio.realized_profit_loss # Zero

(***************************************************************************)
(* The calls the run makes on the ledger (Spec).                            *)
(***************************************************************************)
\* no symbol has two sells dated on the same day
NoDoubleSale(p) ==
    \A i, j \in 1..Len(p.transactions) :
       (/\ i < j
        /\ p.transactions[i].action = "sell"
        /\ p.transactions[j].action = "sell"
        /\ p.transactions[i].asset = p.transactions[j].asset)
       => p.transactions[i].datetime # p.transactions[j].datetime

\* C30: every sell the run makes is for a symbol that is held and for the
\* quantity held, so paid_value and remove_asset never raise, and no symbol
\* is sold twice on one day.
C30_NoLedgerViolation ==
    [][/\ (last_call' # last_call /\ last_call'.op = "sell") =>
            /\ last_call'.asset \in Held(portfolio)
            /\ last_call'.quantity = AssetData(portfolio, last_call'.asset).quantity
            /\ ~paid_value_raises(portfolio, last_call'.asset)
            /\ ~remove_asset_raises(portfolio, last_call'.asset, last_call'.quantity)
            /\ pc' # "crashed"
       /\ NoDoubleSale(portfolio')]_vars

\* C30 witness: the SELL phase has sold a symbol and the risk-exit loop of the
\* same day has passed over it without a second sale
C30_Witness ==
    /\ pc = "exits"
    /\ todo = <<>>
    /\ items # <<>>
    /\ rebalance_log # <<>>
    /\ rebalance_log[Len(rebalance_log)]
          = [phase |-> "sell", date |-> simulation.current_date]
    /\ \E k \in 1..Len(items) :
          /\ items[k] \notin Held(portfolio)
          /\ items[k] \in DOMAIN simulation.current_data
          /\ RLt(Zero, CachedPrice(simulation, items[k]))

====
